---- MODULE Spec2Model ----
(***************************************************************************)
(* A model of dbgap-extract: the extraction driver (scrape), the           *)
(* version-fallback resolver, the sample flattener, the TSV writer and the *)
(* extract validator.                                                      *)
(*                                                                         *)
(* Python strings are sequences of one-character strings, so that split,  *)
(* join, int(), str() and concatenation are computed and not assumed.      *)
(* Dictionary keys that the code only looks up by name (the attribute      *)
(* names of a sample) are TLA+ strings.                                    *)
(***************************************************************************)
EXTENDS Integers, Sequences, FiniteSets, TLC

VARIABLES
    pc,                 \* where the run is: "start", "loop", "done", "exited", "crashed"
                        \* ("idle" when no run is under way)
    studies_to_scrape,  \* scrape's argument: the caller's accession list
    prior_file,         \* the file found at output_filename when the run starts
    expand_sra_details, \* args.expand_sra_details
    q,                  \* the worklist (queue.Queue)
    already_seen,       \* list of accessions already written
    out_file,           \* the file at output_filename: whether it exists, and its rows
    log,                \* records handed to logging, in order
    exit_status,        \* "running", or the process's exit status "0" or "1"
    fetches,            \* requests the source has served
    response,           \* the latest response of the source
    requested,          \* the accession popped in the latest iteration
    study_accession,    \* scrape's local of that name
    sample_elements,    \* scrape's local of that name
    previous_version_of_study_accession,  \* scrape's local of that name
    branch,             \* the branch the latest iteration took
    fn_input,           \* the argument of a function called on its own
    fn_output           \* its result

vars == <<pc, studies_to_scrape, prior_file, expand_sra_details, q, already_seen,
          out_file, log, exit_status, fetches, response, requested, study_accession,
          sample_elements, previous_version_of_study_accession, branch, fn_input,
          fn_output>>

-----------------------------------------------------------------------------
(* Bounds of the model *)

\* versions 1..MaxVersion appear in the driver's accessions
MaxVersion == 2
\* the caller's accession list has at most MaxInput entries
MaxInput == 2
\* the source serves at most MaxFetches requests in a run
MaxFetches == 3
\* versions 0..MaxResolverVersion are given to the fallback resolver on its own
MaxResolverVersion == 12

-----------------------------------------------------------------------------
(* Python values that are not strings. Each is a one-element sequence holding
   a word, which no string of the model (a sequence of characters) equals. *)

None == <<"None">>
Unbound == <<"Unbound">>
IndexError == <<"IndexError">>
KeyError == <<"KeyError">>
ValueError == <<"ValueError">>

Exceptions == {IndexError, KeyError, ValueError}

IsRaise(x) == x \in Exceptions

-----------------------------------------------------------------------------
(* Strings *)

DigitChars == <<"0", "1", "2", "3", "4", "5", "6", "7", "8", "9">>

IsDigit(c) == \E d \in 1..10 : DigitChars[d] = c

DigitVal(c) == (CHOOSE d \in 1..10 : DigitChars[d] = c) - 1

RECURSIVE StrNat(_)
\* str(n) for n >= 0
StrNat(n) == IF n < 10 THEN <<DigitChars[n + 1]>>
             ELSE StrNat(n \div 10) \o <<DigitChars[(n % 10) + 1]>>

\* str(n)
Str(n) == IF n < 0 THEN <<"-">> \o StrNat(0 - n) ELSE StrNat(n)

RECURSIVE DigitsVal(_)
DigitsVal(s) == IF Len(s) = 0 THEN 0
                ELSE 10 * DigitsVal(SubSeq(s, 1, Len(s) - 1)) + DigitVal(s[Len(s)])

AllDigits(s) == Len(s) > 0 /\ \A i \in 1..Len(s) : IsDigit(s[i])

\* whether int(s) succeeds: an optional sign and decimal digits (the
\* surrounding whitespace and the underscores int() also accepts do not occur
\* in the strings of this model)
IsIntLiteral(s) ==
    \/ AllDigits(s)
    \/ Len(s) > 1 /\ s[1] \in {"-", "+"} /\ AllDigits(Tail(s))

\* int(s), where it succeeds
ParseInt(s) ==
    IF AllDigits(s) THEN DigitsVal(s)
    ELSE IF s[1] = "-" THEN 0 - DigitsVal(Tail(s)) ELSE DigitsVal(Tail(s))

RECURSIVE Split(_, _)
\* s.split(sep) for a one-character sep
Split(s, sep) ==
    IF \E i \in 1..Len(s) : s[i] = sep
    THEN LET i == CHOOSE j \in 1..Len(s) : s[j] = sep /\ \A k \in 1..(j - 1) : s[k] # sep
         IN <<SubSeq(s, 1, i - 1)>> \o Split(SubSeq(s, i + 1, Len(s)), sep)
    ELSE <<s>>

RECURSIVE Join(_, _)
\* sep.join(parts)
Join(sep, parts) ==
    IF Len(parts) = 0 THEN <<>>
    ELSE IF Len(parts) = 1 THEN parts[1]
    ELSE parts[1] \o sep \o Join(sep, Tail(parts))

\* parts[:-n]
DropLast(parts, n) == SubSeq(parts, 1, Len(parts) - n)

\* needle in s
Contains(s, needle) ==
    \E i \in 0..(Len(s) - Len(needle)) : SubSeq(s, i + 1, i + Len(needle)) = needle

-----------------------------------------------------------------------------
(* Version-fallback resolver *)

\* a resolver that forgets to step back
SameVersionNumber(version_number) == version_number

\* version_number - 1, the version the resolver writes into the accession
PreviousVersionNumber(version_number) == version_number - 1

\* _get_previous_version_of_study_accession: the previous version's accession,
\* None at version 1, or the exception the code raises
_get_previous_version_of_study_accession(accession) ==
    LET study_accession_split == Split(accession, ".")
    IN IF Len(study_accession_split) < 2 THEN IndexError
       ELSE LET digits == Tail(study_accession_split[2])
            IN IF Len(study_accession_split[2]) = 0 \/ ~IsIntLiteral(digits) THEN ValueError
               ELSE LET version_number == ParseInt(digits)
                    IN IF version_number = 1 THEN None
                       ELSE IF Len(study_accession_split) < 3 THEN IndexError
                       ELSE Join(<<".">>,
                                 <<study_accession_split[1],
                                   <<"v">> \o Str(PreviousVersionNumber(version_number)),
                                   study_accession_split[3]>>)

-----------------------------------------------------------------------------
(* Accessions *)

PHS == <<"p", "h", "s">>

\* the study numbers and participant sets of the model's accessions
StudyNumbers == {<<"1">>, <<"2", "0">>}
ParticipantSets == {<<"1">>, <<"2">>}

\* the accession phs<n>.v<k>.p<m>
Accession(n, k, m) == PHS \o n \o <<".", "v">> \o Str(k) \o <<".", "p">> \o m

-----------------------------------------------------------------------------
(* The output columns *)

FIELD_NAMES ==
    <<"submitted_sample_id",
      "biosample_id",
      "dbgap_sample_id",
      "sra_sample_id",
      "submitted_subject_id",
      "dbgap_subject_id",
      "consent_code",
      "consent_short_name",
      "sex",
      "body_site",
      "analyte_type",
      "sample_use",
      "repository",
      "dbgap_status",
      "sra_data_details",
      "study_accession",
      "study_accession_with_consent",
      "study_with_consent",
      "study_subject_id">>

\* the characters of each column name, as the header row holds them
Chars ==
    [submitted_sample_id |->
        <<"s", "u", "b", "m", "i", "t", "t", "e", "d", "_", "s", "a", "m", "p", "l", "e", "_", "i", "d">>,
     biosample_id |->
        <<"b", "i", "o", "s", "a", "m", "p", "l", "e", "_", "i", "d">>,
     dbgap_sample_id |->
        <<"d", "b", "g", "a", "p", "_", "s", "a", "m", "p", "l", "e", "_", "i", "d">>,
     sra_sample_id |->
        <<"s", "r", "a", "_", "s", "a", "m", "p", "l", "e", "_", "i", "d">>,
     submitted_subject_id |->
        <<"s", "u", "b", "m", "i", "t", "t", "e", "d", "_", "s", "u", "b", "j", "e", "c", "t", "_", "i", "d">>,
     dbgap_subject_id |->
        <<"d", "b", "g", "a", "p", "_", "s", "u", "b", "j", "e", "c", "t", "_", "i", "d">>,
     consent_code |->
        <<"c", "o", "n", "s", "e", "n", "t", "_", "c", "o", "d", "e">>,
     consent_short_name |->
        <<"c", "o", "n", "s", "e", "n", "t", "_", "s", "h", "o", "r", "t", "_", "n", "a", "m", "e">>,
     sex |->
        <<"s", "e", "x">>,
     body_site |->
        <<"b", "o", "d", "y", "_", "s", "i", "t", "e">>,
     analyte_type |->
        <<"a", "n", "a", "l", "y", "t", "e", "_", "t", "y", "p", "e">>,
     sample_use |->
        <<"s", "a", "m", "p", "l", "e", "_", "u", "s", "e">>,
     repository |->
        <<"r", "e", "p", "o", "s", "i", "t", "o", "r", "y">>,
     dbgap_status |->
        <<"d", "b", "g", "a", "p", "_", "s", "t", "a", "t", "u", "s">>,
     sra_data_details |->
        <<"s", "r", "a", "_", "d", "a", "t", "a", "_", "d", "e", "t", "a", "i", "l", "s">>,
     study_accession |->
        <<"s", "t", "u", "d", "y", "_", "a", "c", "c", "e", "s", "s", "i", "o", "n">>,
     study_accession_with_consent |->
        <<"s", "t", "u", "d", "y", "_", "a", "c", "c", "e", "s", "s", "i", "o", "n", "_", "w", "i", "t", "h", "_", "c", "o", "n", "s", "e", "n", "t">>,
     study_with_consent |->
        <<"s", "t", "u", "d", "y", "_", "w", "i", "t", "h", "_", "c", "o", "n", "s", "e", "n", "t">>,
     study_subject_id |->
        <<"s", "t", "u", "d", "y", "_", "s", "u", "b", "j", "e", "c", "t", "_", "i", "d">>]

-----------------------------------------------------------------------------
(* Dictionaries.  A sample's attributes are a function from attribute names
   to strings; a statistic block's attributes, which the code iterates in
   order, are a sequence of <<key, value>> pairs with distinct keys. *)

\* d[k] = v
DictSet(d, k, v) == [x \in (DOMAIN d) \cup {k} |-> IF x = k THEN v ELSE d[x]]

\* d.get(k, "")
DictGet(d, k) == IF k \in DOMAIN d THEN d[k] ELSE <<>>

RECURSIVE PairsSet(_, _, _)
\* d[k] = v on an ordered dictionary: a known key keeps its place
PairsSet(pairs, k, v) ==
    IF Len(pairs) = 0 THEN <<<<k, v>>>>
    ELSE IF pairs[1][1] = k THEN <<<<k, v>>>> \o Tail(pairs)
    ELSE <<pairs[1]>> \o PairsSet(Tail(pairs), k, v)

RECURSIVE PairsUpdate(_, _)
\* d.update(other)
PairsUpdate(pairs, other) ==
    IF Len(other) = 0 THEN pairs
    ELSE PairsUpdate(PairsSet(pairs, other[1][1], other[1][2]), Tail(other))

-----------------------------------------------------------------------------
(* json.dumps and str.replace, on strings that need no escaping *)

Quoted(s) == <<"\"">> \o s \o <<"\"">>

RECURSIVE JsonItems(_)
JsonItems(items) ==
    IF Len(items) = 0 THEN <<>>
    ELSE IF Len(items) = 1 THEN Quoted(items[1])
    ELSE Quoted(items[1]) \o <<",", " ">> \o JsonItems(Tail(items))

\* json.dumps of a list of strings
JsonDumpsList(items) == <<"[">> \o JsonItems(items) \o <<"]">>

RECURSIVE JsonMembers(_)
JsonMembers(pairs) ==
    IF Len(pairs) = 0 THEN <<>>
    ELSE LET member == Quoted(pairs[1][1]) \o <<":", " ">> \o Quoted(pairs[1][2])
         IN IF Len(pairs) = 1 THEN member
            ELSE member \o <<",", " ">> \o JsonMembers(Tail(pairs))

\* json.dumps of a dictionary of strings
JsonDumpsDict(pairs) == <<"{">> \o JsonMembers(pairs) \o <<"}">>

RECURSIVE Replace(_, _, _)
\* s.replace(old, new) for a non-empty old
Replace(s, old, new) ==
    IF Len(s) < Len(old) THEN s
    ELSE IF SubSeq(s, 1, Len(old)) = old
         THEN new \o Replace(SubSeq(s, Len(old) + 1, Len(s)), old, new)
         ELSE <<s[1]>> \o Replace(Tail(s), old, new)

-----------------------------------------------------------------------------
(* A sample element: attrib, the Sample's attributes; uses, the Use texts of
   its first Uses child; sra, the attributes of the Stats children of its
   first SRAData child.  has_uses and has_sra tell whether the child is there. *)

Sample(attrib, has_uses, uses, has_sra, sra) ==
    [attrib |-> attrib, has_uses |-> has_uses, uses |-> uses,
     has_sra |-> has_sra, sra |-> sra]

\* a log record
LogRecord(level, event, about) == [level |-> level, event |-> event, about |-> about]

-----------------------------------------------------------------------------
(* SRA details *)

RECURSIVE StatsAsString(_)
\* the inner loop of the flattened rendering: key:value| for every attribute
StatsAsString(stat_dict) ==
    IF Len(stat_dict) = 0 THEN <<>>
    ELSE stat_dict[1][1] \o <<":">> \o stat_dict[1][2] \o <<"|">>
         \o StatsAsString(Tail(stat_dict))

\* stats_as_string[:-1] when it ends with "|"
StripTrailingBar(stats_as_string) ==
    IF stats_as_string[Len(stats_as_string)] = "|"
    THEN SubSeq(stats_as_string, 1, Len(stats_as_string) - 1)
    ELSE stats_as_string

RECURSIVE FlattenedStats(_)
\* the loop over the Stats elements: the rendering so far, or IndexError where
\* stats_as_string[-1] is read on an empty string
FlattenedStats(sra_datas) ==
    IF Len(sra_datas) = 0 THEN <<>>
    ELSE LET stats_as_string == StatsAsString(sra_datas[1])
         IN IF Len(stats_as_string) = 0 THEN IndexError
            ELSE LET rest == FlattenedStats(Tail(sra_datas))
                 IN IF IsRaise(rest) THEN rest
                    ELSE <<"(">> \o StripTrailingBar(stats_as_string) \o <<")", " ">> \o rest

_get_flattened_sra_data_details_from_xml_sample(sample) ==
    IF ~sample.has_sra THEN IndexError ELSE FlattenedStats(sample.sra)

RECURSIVE MergedStats(_, _)
MergedStats(sra_data_details, sra_datas) ==
    IF Len(sra_datas) = 0 THEN sra_data_details
    ELSE MergedStats(PairsUpdate(sra_data_details, sra_datas[1]), Tail(sra_datas))

_get_sra_data_details_from_xml_sample(sample) ==
    IF ~sample.has_sra THEN IndexError
    ELSE Replace(JsonDumpsDict(MergedStats(<<>>, sample.sra)), <<"\"", "\"">>, <<"\"">>)

-----------------------------------------------------------------------------
(* Sample flattener *)

\* a flattener that derives the consent columns for every sample
ConsentAlways(sample_dict) == TRUE

\* "consent_code" in sample_dict
HasConsentCode(sample_dict) == "consent_code" \in DOMAIN sample_dict

\* a flattener that builds the subject id on what an earlier call left in
\* the record
LeftoverSubjectId(sample_dict) ==
    IF "study_subject_id" \in DOMAIN sample_dict THEN sample_dict["study_subject_id"]
    ELSE sample_dict["submitted_subject_id"]

\* sample_dict["submitted_subject_id"]
SubmittedSubjectId(sample_dict) == sample_dict["submitted_subject_id"]

\* the result of a call: exc is None or the exception raised, sample_dict is
\* sample.attrib as the call leaves it, logged is what the call logged
FlattenResult(exc, sample_dict, logged) ==
    [exc |-> exc, sample_dict |-> sample_dict, logged |-> logged]

\* get_sample_dict_from_xml_sample(study_accession, sample, args)
get_sample_dict_from_xml_sample(accession, sample, expand) ==
    LET d0 == sample.attrib
    IN IF ~sample.has_uses THEN FlattenResult(IndexError, d0, <<>>)
       ELSE
       LET d1 == DictSet(d0, "sample_use", JsonDumpsList(sample.uses))
           sra_data_details == IF expand THEN _get_sra_data_details_from_xml_sample(sample)
                               ELSE _get_flattened_sra_data_details_from_xml_sample(sample)
       IN IF IsRaise(sra_data_details) THEN FlattenResult(sra_data_details, d1, <<>>)
          ELSE
          LET d2 == DictSet(d1, "sra_data_details", sra_data_details)
              d3 == DictSet(d2, "study_accession", accession)
              consent == HasConsentCode(d3)
              d4 == IF consent
                    THEN DictSet(
                           DictSet(d3, "study_accession_with_consent",
                                   accession \o <<".", "c">> \o DictGet(d3, "consent_code")),
                           "study_with_consent",
                           Join(<<".">>, DropLast(Split(accession, "."), 2))
                               \o <<".", "c">> \o DictGet(d3, "consent_code"))
                    ELSE d3
              logged == IF consent THEN <<>>
                        ELSE <<LogRecord("debug", "lacks a consent code",
                                         DictGet(d0, "submitted_sample_id"))>>
              study_accession_w_version ==
                  Join(<<".">>, DropLast(Split(d4["study_accession"], "."), 1))
          IN IF "submitted_subject_id" \notin DOMAIN d4
             THEN FlattenResult(KeyError, d4, logged)
             ELSE FlattenResult(
                      None,
                      DictSet(d4, "study_subject_id",
                              study_accession_w_version \o <<"_">> \o SubmittedSubjectId(d4)),
                      logged)

-----------------------------------------------------------------------------
(* TSV writer *)

\* the file at output_filename: whether it exists, and its rows
File(exists, rows) == [exists |-> exists, rows |-> rows]

\* write_list_of_rows_to_tsv: open in "a+" mode and write every row
write_list_of_rows_to_tsv(rows, file) == File(TRUE, file.rows \o rows)

\* a driver that leaves an existing output file in place
KeepExisting(file) == file

\* os.remove(output_filename) if os.path.exists(output_filename)
RemoveExisting(file) == IF file.exists THEN File(FALSE, <<>>) ELSE file

\* the row of a flattened sample: sample_dict.get(field, "") for every column
RowOf(sample_dict) == [i \in 1..Len(FIELD_NAMES) |-> DictGet(sample_dict, FIELD_NAMES[i])]

\* the header row
HeaderRow == [i \in 1..Len(FIELD_NAMES) |-> Chars[FIELD_NAMES[i]]]

\* a writer in which a failing sample ends the study's loop
AbortAfterError(rest) == [rows |-> <<>>, logged |-> <<>>]

\* the except clause ends and the loop goes on with the remaining samples
ContinueAfterError(rest) == rest

RECURSIVE SampleRows(_, _, _)
\* the loop of write_sample_rows_for_study: the rows to write and what is logged
SampleRows(accession, samples, expand) ==
    IF Len(samples) = 0 THEN [rows |-> <<>>, logged |-> <<>>]
    ELSE LET r == get_sample_dict_from_xml_sample(accession, samples[1], expand)
             rest == SampleRows(accession, Tail(samples), expand)
         IN IF r.exc = None
            THEN [rows |-> <<RowOf(r.sample_dict)>> \o rest.rows,
                  logged |-> r.logged \o rest.logged]
            ELSE LET after == ContinueAfterError(rest)
                 IN [rows |-> after.rows,
                     logged |-> r.logged
                                \o <<LogRecord("error", "Error processing sample",
                                               DictGet(r.sample_dict, "submitted_sample_id")),
                                     LogRecord("error", "exception", r.exc)>>
                                \o after.logged]

-----------------------------------------------------------------------------
(* What the source serves to the driver *)

\* the accessions of the driver's runs: one study, versions 1..MaxVersion
DriverStudy == <<"1">>
DriverAccessions == {Accession(DriverStudy, k, <<"1">>) : k \in 1..MaxVersion}

\* an accession without version, as a caller may pass it or a document report it
BareAccession == PHS \o DriverStudy

StatsBlock == <<<<<<"r", "u", "n", "s">>, <<"3">>>>, <<<<"s", "i", "z", "e">>, <<"7", "4">>>>>>

GoodSample ==
    Sample([submitted_sample_id |-> <<"N", "1">>, submitted_subject_id |-> <<"A">>,
            consent_code |-> <<"1">>],
           TRUE, <<<<"W", "G", "S">>>>, TRUE, <<StatsBlock>>)

\* no submitted_subject_id: flattening raises KeyError
NoSubjectSample ==
    Sample([submitted_sample_id |-> <<"N", "2">>], TRUE, <<>>, TRUE, <<>>)

\* no consent_code
NoConsentSample ==
    Sample([submitted_sample_id |-> <<"N", "3">>, submitted_subject_id |-> <<"B">>],
           TRUE, <<>>, TRUE, <<>>)

DriverSampleLists ==
    {<<>>, <<GoodSample>>, <<GoodSample, NoSubjectSample, NoConsentSample>>}

\* a response: the request fails ("network error"), the text is not
\* well-formed ("not xml"), the document lacks a Study element ("no Study"),
\* the Study lacks the accession attribute ("no accession"), the Study lacks
\* a SampleList ("no SampleList"), or a study document ("study")
Response(kind, accession, samples) ==
    [kind |-> kind, accession |-> accession, samples |-> samples]

FailedResponses ==
    {Response(k, Unbound, <<>>) :
         k \in {"network error", "not xml", "no Study", "no accession"}}
    \cup {Response("no SampleList", Accession(DriverStudy, 1, <<"1">>), <<>>)}

StudyResponses ==
    {Response("study", a, l) : a \in DriverAccessions, l \in DriverSampleLists}
    \cup {Response("study", BareAccession, <<>>)}

\* a row left by an earlier run, of a study this run does not meet
OldRow == RowOf(get_sample_dict_from_xml_sample(Accession(<<"9">>, 1, <<"1">>), GoodSample, FALSE).sample_dict)

PreExistingFiles == {File(FALSE, <<>>), File(TRUE, <<HeaderRow, OldRow>>)}

RECURSIVE SeqsUpTo(_, _)
\* the sequences over S of length at most n
SeqsUpTo(S, n) ==
    IF n = 0 THEN {<<>>}
    ELSE LET shorter == SeqsUpTo(S, n - 1)
         IN shorter \cup {Append(s, x) : s \in shorter, x \in S}

InputLists == SeqsUpTo(DriverAccessions, MaxInput)

-----------------------------------------------------------------------------
(* Extraction driver *)

\* no function is under test
NotCalled == [called |-> "none"]

IdleFunction == fn_input = Unbound /\ fn_output = NotCalled

Init ==
    /\ pc = "start"
    /\ studies_to_scrape \in InputLists
    /\ expand_sra_details \in BOOLEAN
    /\ q = <<>>
    /\ already_seen = <<>>
    /\ prior_file \in PreExistingFiles
    /\ out_file = prior_file
    /\ log = <<>>
    /\ exit_status = "running"
    /\ fetches = 0
    /\ response = Response("none", Unbound, <<>>)
    /\ requested = Unbound
    /\ study_accession = Unbound
    /\ sample_elements = <<>>
    /\ previous_version_of_study_accession = Unbound
    /\ branch = "none"
    /\ IdleFunction

\* x in already_seen
InList(x, list) == \E i \in 1..Len(list) : list[i] = x

\* a worklist whose newest entry is served first
PutFront(queue, item) == <<item>> \o queue

\* q.put(item) / q.put_nowait(item) of queue.Queue: the item goes to the back
Put(queue, item) == Append(queue, item)

RECURSIVE PutAll(_, _)
\* [q.put(s) for s in studies_to_scrape]
PutAll(queue, items) ==
    IF Len(items) = 0 THEN queue
    ELSE PutAll(Put(queue, Head(items)), Tail(items))

\* scrape, up to its loop: replace the output file, write the header row, fill
\* the queue
ScrapeBegin ==
    /\ pc = "start"
    /\ out_file' = write_list_of_rows_to_tsv(<<HeaderRow>>, RemoveExisting(out_file))
    /\ q' = PutAll(<<>>, studies_to_scrape)
    /\ already_seen' = <<>>
    /\ pc' = "loop"
    /\ UNCHANGED <<studies_to_scrape, prior_file, expand_sra_details, log, exit_status,
                   fetches, response, requested, study_accession, sample_elements,
                   previous_version_of_study_accession, branch, fn_input, fn_output>>

\* an iteration can start: the queue holds an accession and the source answers
CanIterate == pc = "loop" /\ Len(q) > 0 /\ fetches < MaxFetches

\* what every iteration does first: q.get_nowait() and the request
Pop(r) ==
    /\ requested' = Head(q)
    /\ fetches' = fetches + 1
    /\ response' = r
    /\ UNCHANGED <<studies_to_scrape, prior_file, expand_sra_details, fn_input,
                   fn_output>>

\* the request or ET.fromstring raises: the except clause logs and calls exit(1)
IterFetchFails ==
    /\ CanIterate
    /\ \E r \in FailedResponses :
        /\ r.kind \in {"network error", "not xml"}
        /\ Pop(r)
        /\ q' = Tail(q)
        /\ study_accession' = Head(q)
        /\ log' = Append(log, LogRecord("error", "Failed to parse data from NIH endpoint",
                                        Head(q)))
        /\ branch' = r.kind
        /\ pc' = "exited"
        /\ exit_status' = "1"
        /\ UNCHANGED <<already_seen, out_file, sample_elements,
                       previous_version_of_study_accession>>

\* the document parses but root.findall("Study")[0], .attrib["accession"] or
\* .findall("SampleList")[0] raises: nothing catches it and the interpreter ends
\* the process with status 1
IterMalformed ==
    /\ CanIterate
    /\ \E r \in FailedResponses :
        /\ r.kind \in {"no Study", "no accession", "no SampleList"}
        /\ Pop(r)
        /\ q' = Tail(q)
        /\ study_accession' = IF r.kind = "no SampleList" THEN r.accession ELSE Head(q)
        /\ branch' = r.kind
        /\ pc' = "crashed"
        /\ exit_status' = "1"
        /\ UNCHANGED <<already_seen, out_file, log, sample_elements,
                       previous_version_of_study_accession>>

\* a driver that keeps the accession it asked for
RequestedAccession(asked, reported) == asked

\* study_accession = root.findall("Study")[0].attrib["accession"]
ResolvedAccession(asked, reported) == reported

\* no samples and a previous version: it is put on the queue
IterFallback ==
    /\ CanIterate
    /\ \E r \in StudyResponses :
        LET accession == ResolvedAccession(Head(q), r.accession)
            previous == _get_previous_version_of_study_accession(accession)
        IN /\ Len(r.samples) = 0
           /\ ~IsRaise(previous) /\ previous # None
           /\ Pop(r)
           /\ study_accession' = accession
           /\ sample_elements' = r.samples
           /\ previous_version_of_study_accession' = previous
           /\ q' = Put(Tail(q), previous)
           /\ log' = Append(log, LogRecord("error", "lacks samples. Going back a version",
                                           accession))
           /\ branch' = "fallback"
           /\ UNCHANGED <<pc, already_seen, out_file, exit_status>>

\* no samples and no previous version
IterExhausted ==
    /\ CanIterate
    /\ \E r \in StudyResponses :
        LET accession == ResolvedAccession(Head(q), r.accession)
            previous == _get_previous_version_of_study_accession(accession)
        IN /\ Len(r.samples) = 0
           /\ previous = None
           /\ Pop(r)
           /\ study_accession' = accession
           /\ sample_elements' = r.samples
           /\ previous_version_of_study_accession' = previous
           /\ q' = Tail(q)
           /\ log' = Append(log, LogRecord("debug", "Could not find samples for any version",
                                           accession))
           /\ branch' = "exhausted"
           /\ UNCHANGED <<pc, already_seen, out_file, exit_status>>

\* no samples and the resolver raises on the reported accession: nothing
\* catches it
IterResolverRaises ==
    /\ CanIterate
    /\ \E r \in StudyResponses :
        LET accession == ResolvedAccession(Head(q), r.accession)
            previous == _get_previous_version_of_study_accession(accession)
        IN /\ Len(r.samples) = 0
           /\ IsRaise(previous)
           /\ Pop(r)
           /\ study_accession' = accession
           /\ sample_elements' = r.samples
           /\ q' = Tail(q)
           /\ branch' = "resolver raised"
           /\ pc' = "crashed"
           /\ exit_status' = "1"
           /\ UNCHANGED <<already_seen, out_file, log,
                          previous_version_of_study_accession>>

\* a driver without the already_seen test
NeverSeen(accession, seen) == FALSE

\* study_accession in already_seen
AlreadySeen(accession, seen) == InList(accession, seen)

\* samples of an accession not written yet: write_sample_rows_for_study, then
\* already_seen.append
IterWrite ==
    /\ CanIterate
    /\ \E r \in StudyResponses :
        LET accession == ResolvedAccession(Head(q), r.accession)
            written == SampleRows(accession, r.samples, expand_sra_details)
        IN /\ Len(r.samples) > 0
           /\ ~AlreadySeen(accession, already_seen)
           /\ Pop(r)
           /\ study_accession' = accession
           /\ sample_elements' = r.samples
           /\ q' = Tail(q)
           /\ log' = log \o written.logged
           /\ out_file' = write_list_of_rows_to_tsv(written.rows, out_file)
           /\ already_seen' = Append(already_seen, accession)
           /\ branch' = "written"
           /\ UNCHANGED <<pc, exit_status, previous_version_of_study_accession>>

\* samples of an accession already written: nothing is done
IterDuplicate ==
    /\ CanIterate
    /\ \E r \in StudyResponses :
        LET accession == ResolvedAccession(Head(q), r.accession)
        IN /\ Len(r.samples) > 0
           /\ AlreadySeen(accession, already_seen)
           /\ Pop(r)
           /\ study_accession' = accession
           /\ sample_elements' = r.samples
           /\ q' = Tail(q)
           /\ branch' = "duplicate"
           /\ UNCHANGED <<pc, already_seen, out_file, log, exit_status,
                          previous_version_of_study_accession>>

\* the queue is empty: scrape returns, main logs and the process ends
ScrapeReturn ==
    /\ pc = "loop"
    /\ Len(q) = 0
    /\ pc' = "done"
    /\ exit_status' = "0"
    /\ log' = Append(log, LogRecord("debug", "All done", <<>>))
    /\ UNCHANGED <<studies_to_scrape, prior_file, expand_sra_details, q, already_seen,
                   out_file, fetches, response, requested, study_accession,
                   sample_elements, previous_version_of_study_accession, branch,
                   fn_input, fn_output>>

Next ==
    \/ ScrapeBegin
    \/ IterFetchFails
    \/ IterMalformed
    \/ IterFallback
    \/ IterExhausted
    \/ IterResolverRaises
    \/ IterWrite
    \/ IterDuplicate
    \/ ScrapeReturn

Spec == Init /\ [][Next]_vars

-----------------------------------------------------------------------------
(* Properties of the driver *)

\* the index of a column in a row
Column(name) == CHOOSE i \in 1..Len(FIELD_NAMES) : FIELD_NAMES[i] = name

\* the index of the study_accession column
StudyAccessionColumn == Column("study_accession")

\* the rows write_sample_rows_for_study writes for an accession, a document's
\* samples and a setting of expand_sra_details
WrittenRows ==
    [a \in DriverAccessions, l \in DriverSampleLists, e \in BOOLEAN |->
         SampleRows(a, l, e).rows]

\* the version number of a three-segment accession
VersionOf(accession) == ParseInt(Tail(Split(accession, ".")[2]))

\* the rows of the output file after the first
DataRows == IF Len(out_file.rows) = 0 THEN <<>> ELSE Tail(out_file.rows)

\* the data rows whose study_accession column is the given accession
RowsOf(accession) ==
    SelectSeq(DataRows, LAMBDA row : row[StudyAccessionColumn] = accession)

\* some record of the log has the event
Logged(event) == \E i \in 1..Len(log) : log[i].event = event

\* the samples get_sample_dict_from_xml_sample flattens without raising
Flattens(accession, sample) ==
    get_sample_dict_from_xml_sample(accession, sample, expand_sra_details).exc = None

\* C1: every fallback step pushes an accession whose version number is
\* strictly smaller than that of the accession that was popped in that step
\* (the decreasing measure the claim rests termination on).
C1_FallbackDecreasesVersion ==
    branch = "fallback" => VersionOf(previous_version_of_study_accession) < VersionOf(requested)

\* C2: the sample rows of a resolved accession are written at most once: the
\* data rows of every accession are the rows of one document's samples, never
\* of two; an accession met with samples is in already_seen afterwards, and
\* already_seen holds no accession twice.
C2_WrittenOnce ==
    pc # "start" =>
        /\ \A a \in DriverAccessions :
            /\ \E l \in DriverSampleLists :
                   RowsOf(a) = WrittenRows[a, l, expand_sra_details]
            /\ Len(RowsOf(a)) > 0 => InList(a, already_seen)
        /\ \A i, j \in 1..Len(already_seen) : already_seen[i] = already_seen[j] => i = j
        /\ branch \in {"written", "duplicate"} => InList(response.accession, already_seen)

\* an accession is met a second time, after a fallback, and its rows are in
\* the output once
C2_Witness ==
    /\ branch = "duplicate"
    /\ Logged("lacks samples. Going back a version")
    /\ Len(RowsOf(study_accession)) > 0

\* C4: a response without samples leaves the output as it is, and the rows a
\* step appends all carry, in the study_accession column, the accession the
\* response reports (not the accession asked for), that response having samples.
C4_RowsCarryReportedAccession ==
    [][fetches' = fetches + 1 =>
           /\ Len(response'.samples) = 0 => out_file' = out_file
           /\ out_file' # out_file =>
                /\ Len(response'.samples) > 0
                /\ Len(out_file'.rows) > Len(out_file.rows)
                /\ SubSeq(out_file'.rows, 1, Len(out_file.rows)) = out_file.rows
                /\ \A i \in (Len(out_file.rows) + 1)..Len(out_file'.rows) :
                       out_file'.rows[i][StudyAccessionColumn] = response'.accession]_vars

\* version 2 was asked for and had no samples; version 1, asked for by the
\* fallback, is written, and the output holds rows of version 1 alone
C4_Witness ==
    /\ branch = "written"
    /\ studies_to_scrape = <<Accession(DriverStudy, 2, <<"1">>)>>
    /\ Logged("lacks samples. Going back a version")
    /\ requested = previous_version_of_study_accession
    /\ response.accession = Accession(DriverStudy, 1, <<"1">>)
    /\ Len(DataRows) > 0
    /\ \A i \in 1..Len(DataRows) :
           DataRows[i][StudyAccessionColumn] = Accession(DriverStudy, 1, <<"1">>)

\* C5: when the fetch fails, the text is not well-formed, or the document
\* lacks the Study element or its SampleList, the run ends with a non-zero
\* status and the failure is the last thing logged.
C5_FailureLoggedAndFatal ==
    branch \in {"network error", "not xml", "no Study", "no SampleList"} =>
        /\ pc \in {"exited", "crashed"}
        /\ exit_status = "1"
        /\ Len(log) > 0
        /\ log[Len(log)].level = "error"
        /\ log[Len(log)].event = "Failed to parse data from NIH endpoint"

\* C6: after a study is written, the output ends with the rows of exactly
\* the samples that flatten, in their order in the document; every sample
\* that does not flatten is logged; the accession is recorded as seen and the
\* run goes on.
C6_SampleFailuresAreLocal ==
    branch = "written" =>
        LET good == SelectSeq(sample_elements, LAMBDA s : Flattens(study_accession, s))
            n == Len(out_file.rows)
        IN /\ n >= 1 + Len(good)
           /\ \A i \in 1..Len(good) :
                  out_file.rows[n - Len(good) + i]
                      = RowOf(get_sample_dict_from_xml_sample(study_accession, good[i],
                                            expand_sra_details).sample_dict)
           /\ \A i \in 1..Len(sample_elements) :
                  ~Flattens(study_accession, sample_elements[i]) =>
                      \E k \in 1..Len(log) :
                          /\ log[k].event = "Error processing sample"
                          /\ log[k].about
                                 = DictGet(sample_elements[i].attrib, "submitted_sample_id")
           /\ InList(study_accession, already_seen)
           /\ pc \in {"loop", "done"}
           /\ exit_status # "1"

\* a study whose second sample does not flatten is written in the second
\* iteration of a run: the samples around the failing one are both in the
\* output, and the run had gone on after an earlier study
C6_Witness ==
    /\ branch = "written"
    /\ fetches = 2
    /\ sample_elements = <<GoodSample, NoSubjectSample, NoConsentSample>>
    /\ Len(RowsOf(study_accession)) = 2
    /\ Len(q) > 0

\* C7: once scrape has begun, the output file exists, its first row is the
\* header row, no later row is the header row, and nothing of the file found
\* at the start is left in it.
C7_HeaderOnceFileReplaced ==
    pc # "start" =>
        /\ out_file.exists
        /\ Len(out_file.rows) >= 1
        /\ out_file.rows[1] = HeaderRow
        /\ \A i \in 2..Len(out_file.rows) :
               /\ out_file.rows[i] # HeaderRow
               /\ \A k \in 1..Len(prior_file.rows) : out_file.rows[i] # prior_file.rows[k]
        /\ Len(out_file.rows) = 1 + Len(DataRows)
        /\ \A i \in 1..Len(DataRows) :
               InList(DataRows[i][StudyAccessionColumn], already_seen)

\* a run that found a file with a header and a row has ended, with rows of
\* its own after the one header
C7_Witness ==
    /\ pc = "done"
    /\ prior_file.exists
    /\ Len(prior_file.rows) = 2
    /\ Len(out_file.rows) > 1

\* C12: the worklist is first-in first-out: it starts as the caller's list
\* in the caller's order, every iteration fetches the accession at its front,
\* so the first accessions fetched are the caller's in their order, and a
\* fallback accession is put behind every accession pending at that moment;
\* an iteration without fallback only removes the front.
C12_WorklistIsFifo ==
    [][/\ (pc = "start" /\ pc' = "loop") => q' = studies_to_scrape
       /\ fetches' = fetches + 1 =>
            /\ requested' = Head(q)
            /\ fetches' <= Len(studies_to_scrape) =>
                   requested' = studies_to_scrape[fetches']
            /\ branch' = "fallback" =>
                   /\ Len(q') = Len(q)
                   /\ SubSeq(q', 1, Len(q) - 1) = Tail(q)
                   /\ q'[Len(q')] = previous_version_of_study_accession'
            /\ branch' # "fallback" => q' = Tail(q)]_vars

\* the first accession of the list had no samples and its previous version
\* was queued; the second accession of the list, pending at that moment, has
\* been fetched and written while the fallback accession waits at the back
C12_Witness ==
    /\ studies_to_scrape
           = <<Accession(DriverStudy, 2, <<"1">>), Accession(DriverStudy, 2, <<"1">>)>>
    /\ fetches = 2
    /\ branch = "written"
    /\ requested = studies_to_scrape[2]
    /\ Len(log) > 0
    /\ log[1].event = "lacks samples. Going back a version"
    /\ q = <<Accession(DriverStudy, 1, <<"1">>)>>

-----------------------------------------------------------------------------
(* The functions on their own.  No run of the driver is under way: its
   variables rest, fn_input holds the argument and fn_output the result. *)

IdleDriver ==
    /\ pc = "idle"
    /\ studies_to_scrape = <<>>
    /\ prior_file = File(FALSE, <<>>)
    /\ expand_sra_details = FALSE
    /\ q = <<>>
    /\ already_seen = <<>>
    /\ out_file = File(FALSE, <<>>)
    /\ log = <<>>
    /\ exit_status = "running"
    /\ fetches = 0
    /\ response = Response("none", Unbound, <<>>)
    /\ requested = Unbound
    /\ study_accession = Unbound
    /\ sample_elements = <<>>
    /\ previous_version_of_study_accession = Unbound
    /\ branch = "none"

\* a call: the function's name and what it returned or raised
Called(name, result) == [called |-> name, result |-> result]

Return(name, result) ==
    /\ fn_output = NotCalled
    /\ fn_output' = Called(name, result)
    /\ UNCHANGED <<pc, studies_to_scrape, prior_file, expand_sra_details, q,
                   already_seen, out_file, log, exit_status, fetches, response,
                   requested, study_accession, sample_elements,
                   previous_version_of_study_accession, branch, fn_input>>

-----------------------------------------------------------------------------
(* The fallback resolver on its own *)

ResolverParticipantSets == ParticipantSets \cup {<<"1", "3">>}

WellFormedAccessions ==
    {Accession(n, k, m) : n \in StudyNumbers, k \in 1..MaxResolverVersion,
                          m \in ResolverParticipantSets}

\* accessions outside the grammar: no version, version 0, a version that is
\* no number, no participant set at version 2 and at version 1
MalformedAccessions ==
    {BareAccession,
     Accession(DriverStudy, 0, <<"1">>),
     BareAccession \o <<".", "v", "x", ".", "p", "1">>,
     BareAccession \o <<".", "v", "2">>,
     BareAccession \o <<".", "v", "1">>}

InitResolver ==
    /\ IdleDriver
    /\ fn_input \in WellFormedAccessions \cup MalformedAccessions
    /\ fn_output = NotCalled

CallPreviousVersion ==
    /\ pc = "idle"
    /\ Return("_get_previous_version_of_study_accession",
              _get_previous_version_of_study_accession(fn_input))

NextResolver == CallPreviousVersion

SpecResolver == InitResolver /\ [][NextResolver]_vars

\* C3: for phsN.v<k>.p<m> the resolver returns phsN.v<k-1>.p<m> when k > 1
\* and None when k = 1.
C3_PreviousVersionResult ==
    fn_output.called = "_get_previous_version_of_study_accession" =>
        \A n \in StudyNumbers, k \in 1..MaxResolverVersion, m \in ResolverParticipantSets :
            fn_input = Accession(n, k, m) =>
                fn_output.result = IF k = 1 THEN None ELSE Accession(n, k - 1, m)

\* version 10 of phs20, participant set 13, resolves to version 9
C3_Witness ==
    /\ fn_input = Accession(<<"2", "0">>, 10, <<"1", "3">>)
    /\ fn_output.called = "_get_previous_version_of_study_accession"
    /\ fn_output.result = <<"p", "h", "s", "2", "0", ".", "v", "9", ".", "p", "1", "3">>

-----------------------------------------------------------------------------
(* The flattener on its own *)

FlattenAccessions == {Accession(n, k, <<"1">>) : n \in StudyNumbers, k \in {1, 10}}

\* the attributes a Sample element may carry, among those of the source
SampleAttribs ==
    LET base == [submitted_sample_id |-> <<"N", "1">>]
        subjects == {base, DictSet(base, "submitted_subject_id", <<"A">>)}
    IN subjects
       \cup {DictSet(d, "consent_code", <<"1">>) : d \in subjects}
       \cup {DictSet(d, "consent_code", <<>>) : d \in subjects}

\* Uses children: none, one without Use, one with two Use
UsesChildren == {<<FALSE, <<>>>>, <<TRUE, <<>>>>, <<TRUE, <<<<"W", "G", "S">>, <<"x">>>>>>}

OtherBlock == <<<<<<"r", "u", "n", "s">>, <<"5">>>>>>
EmptyValueBlock == <<<<<<"r", "u", "n", "s">>, <<>>>>>>
NoAttributeBlock == <<>>

\* SRAData children: none, or one with these Stats children
SraChildren ==
    {<<FALSE, <<>>>>}
    \cup {<<TRUE, blocks>> : blocks \in {<<>>, <<StatsBlock>>, <<StatsBlock, OtherBlock>>,
                                         <<EmptyValueBlock>>, <<NoAttributeBlock>>,
                                         <<StatsBlock, NoAttributeBlock>>}}

FlattenSamples ==
    {Sample(a, u[1], u[2], s[1], s[2]) : a \in SampleAttribs, u \in UsesChildren,
                                         s \in SraChildren}

InitFlatten ==
    /\ IdleDriver
    /\ fn_input \in [accession : FlattenAccessions, sample : FlattenSamples, expand : BOOLEAN]
    /\ fn_output = NotCalled

CallGetSampleDict ==
    /\ pc = "idle"
    /\ Return("get_sample_dict_from_xml_sample",
              get_sample_dict_from_xml_sample(fn_input.accession, fn_input.sample,
                                              fn_input.expand))

CallFlattenedSraDataDetails ==
    /\ pc = "idle"
    /\ fn_input.sample.has_sra
    /\ Return("_get_flattened_sra_data_details_from_xml_sample",
              _get_flattened_sra_data_details_from_xml_sample(fn_input.sample))

\* the sample element after a call: sample_dict is sample.attrib itself, so
\* what the call stored is in the element's attributes
SampleAfterCall(sample, result) == [sample EXCEPT !.attrib = result.sample_dict]

\* a second call and the first one's result
CalledAgain(name, first, result) == [called |-> name, first |-> first, result |-> result]

\* get_sample_dict_from_xml_sample is called a second time on the same element,
\* with the same accession and option
CallGetSampleDictAgain ==
    /\ pc = "idle"
    /\ fn_output.called = "get_sample_dict_from_xml_sample"
    /\ fn_output' = CalledAgain(
                        "get_sample_dict_from_xml_sample again",
                        fn_output.result,
                        get_sample_dict_from_xml_sample(
                            fn_input.accession,
                            SampleAfterCall(fn_input.sample, fn_output.result),
                            fn_input.expand))
    /\ UNCHANGED <<pc, studies_to_scrape, prior_file, expand_sra_details, q,
                   already_seen, out_file, log, exit_status, fetches, response,
                   requested, study_accession, sample_elements,
                   previous_version_of_study_accession, branch, fn_input>>

NextFlatten ==
    \/ CallGetSampleDict
    \/ CallFlattenedSraDataDetails
    \/ CallGetSampleDictAgain

SpecFlatten == InitFlatten /\ [][NextFlatten]_vars

\* C8: a flattened row has study_accession_with_consent and
\* study_with_consent exactly when the sample has consent_code; they are then
\* the accession + ".c" + consent_code and phsN + ".c" + consent_code.
C8_ConsentColumns ==
    (fn_output.called = "get_sample_dict_from_xml_sample" /\ fn_output.result.exc = None) =>
        LET row == fn_output.result.sample_dict
            attrib == fn_input.sample.attrib
            consent == "consent_code" \in DOMAIN attrib
        IN /\ "study_accession_with_consent" \in DOMAIN row <=> consent
           /\ "study_with_consent" \in DOMAIN row <=> consent
           /\ consent =>
                \A n \in StudyNumbers, k \in {1, 10} :
                    fn_input.accession = Accession(n, k, <<"1">>) =>
                        /\ row["study_accession_with_consent"]
                               = Accession(n, k, <<"1">>) \o <<".", "c">> \o attrib["consent_code"]
                        /\ row["study_with_consent"]
                               = PHS \o n \o <<".", "c">> \o attrib["consent_code"]

\* a sample of phs20.v10.p1 with consent code 1 is flattened
C8_Witness ==
    /\ fn_output.called = "get_sample_dict_from_xml_sample"
    /\ fn_output.result.exc = None
    /\ fn_input.accession = Accession(<<"2", "0">>, 10, <<"1">>)
    /\ DictGet(fn_input.sample.attrib, "consent_code") = <<"1">>
    /\ DictGet(fn_output.result.sample_dict, "study_with_consent")
           = <<"p", "h", "s", "2", "0", ".", "c", "1">>

RECURSIVE RenderedPairs(_)
\* key:value of every attribute, in order
RenderedPairs(stat_dict) ==
    IF Len(stat_dict) = 0 THEN <<>>
    ELSE <<stat_dict[1][1] \o <<":">> \o stat_dict[1][2]>> \o RenderedPairs(Tail(stat_dict))

RECURSIVE RenderedBlocks(_)
\* "(" + the pairs joined by "|" + ") " for every block, in order
RenderedBlocks(blocks) ==
    IF Len(blocks) = 0 THEN <<>>
    ELSE <<"(">> \o Join(<<"|">>, RenderedPairs(blocks[1])) \o <<")", " ">>
         \o RenderedBlocks(Tail(blocks))

\* C10: for a sample with an SRAData element the flattened rendering is, for
\* every list of statistic blocks, the concatenation of the blocks' renderings
\* (the empty string for no block); it never fails.
C10_FlattenedRendering ==
    fn_output.called = "_get_flattened_sra_data_details_from_xml_sample" =>
        fn_output.result = RenderedBlocks(fn_input.sample.sra)

\* C11: a second call of get_sample_dict_from_xml_sample on the same sample
\* element, with the same accession and the same expand_sra_details, ends as
\* the first did and, when it returns, returns the same dictionary (same keys,
\* same values) and so the same row, although the first call has left its
\* keys in the element's attributes.
C11_FlattenIdempotent ==
    fn_output.called = "get_sample_dict_from_xml_sample again" =>
        /\ fn_output.result.exc = fn_output.first.exc
        /\ fn_output.result.exc = None =>
               /\ DOMAIN fn_output.result.sample_dict = DOMAIN fn_output.first.sample_dict
               /\ fn_output.result.sample_dict = fn_output.first.sample_dict
               /\ RowOf(fn_output.result.sample_dict) = RowOf(fn_output.first.sample_dict)

\* the second call has returned for a sample with a consent code, the first
\* call having added its keys to the element's attributes
C11_Witness ==
    /\ fn_output.called = "get_sample_dict_from_xml_sample again"
    /\ fn_output.result.exc = None
    /\ "consent_code" \in DOMAIN fn_input.sample.attrib
    /\ "study_subject_id" \notin DOMAIN fn_input.sample.attrib
    /\ "study_subject_id" \in DOMAIN fn_output.first.sample_dict
    /\ fn_output.first.sample_dict # fn_input.sample.attrib

-----------------------------------------------------------------------------
(* Extract validator *)

Whitespace == {" ", "\t", "\n", "\r"}

RECURSIVE LStrip(_)
LStrip(s) == IF Len(s) > 0 /\ s[1] \in Whitespace THEN LStrip(Tail(s)) ELSE s

RECURSIVE RStrip(_)
RStrip(s) == IF Len(s) > 0 /\ s[Len(s)] \in Whitespace
             THEN RStrip(SubSeq(s, 1, Len(s) - 1)) ELSE s

\* s.strip()
Strip(s) == RStrip(LStrip(s))

\* the characters of the validator's strings, in code point order
CodePoints ==
    <<"\t", "\n", "\r", " ", "\"", ",", "-", ".", "0", "1", "2", "3", "4", "5", "6", "7", "8",
      "9", ":", "A", "B", "G", "N", "S", "W", "[", "]", "_", "a", "b", "c", "d", "e", "g",
      "h", "i", "j", "l", "m", "n", "o", "p", "r", "s", "t", "u", "v", "w", "x", "y", "z",
      "{", "|", "}">>

Ord(c) == CHOOSE i \in 1..Len(CodePoints) : CodePoints[i] = c

RECURSIVE StrLess(_, _)
\* a < b on strings
StrLess(a, b) ==
    IF Len(b) = 0 THEN FALSE
    ELSE IF Len(a) = 0 THEN TRUE
    ELSE IF a[1] = b[1] THEN StrLess(Tail(a), Tail(b))
    ELSE Ord(a[1]) < Ord(b[1])

RECURSIVE Sorted(_)
\* list(keys).sort() of the keys of a dictionary
Sorted(keys) ==
    IF keys = {} THEN <<>>
    ELSE LET least == CHOOSE k \in keys : \A other \in keys \ {k} : StrLess(k, other)
         IN <<least>> \o Sorted(keys \ {least})

\* a field as csv.writer writes it: quoted, with its quotes doubled, if it
\* holds the delimiter, a quote or a line end
CsvField(s) ==
    IF \E i \in 1..Len(s) : s[i] \in {"\t", "\"", "\n", "\r"}
    THEN <<"\"">> \o Replace(s, <<"\"">>, <<"\"", "\"">>) \o <<"\"">>
    ELSE s

\* a row as a line of the file, as readlines() returns it (the writer's
\* "\r\n" is read back as "\n")
TsvLine(row) == Join(<<"\t">>, [i \in 1..Len(row) |-> CsvField(row[i])]) \o <<"\n">>

\* the elements of a sequence
Range(seq) == {seq[i] : i \in 1..Len(seq)}

\* get_unique_accessions_from_input_PHS_list, on the lines of the file
get_unique_accessions_from_input_PHS_list(lines) ==
    Sorted({Strip(line) : line \in Range(lines)})

\* study[-1].strip().split(".")[0] of a line of the extract
LastColumnBase(line) ==
    LET study == Split(line, "\t")
    IN Split(Strip(study[Len(study)]), ".")[1]

\* get_unique_accessions_from_output_extract, on the lines of the file
get_unique_accessions_from_output_extract(lines) ==
    Sorted({LastColumnBase(line) :
                line \in {l \in Range(lines) : Contains(LastColumnBase(l), PHS)}})

\* a line of the report
Message(kind, about, inputted, outputted) ==
    [kind |-> kind, about |-> about, inputted |-> inputted, outputted |-> outputted]

MissingMessage(record) == Message("Output is missing", record, 0, 0)

\* record not in accessions_from_output
NotInOutput(record, accessions_from_output) == ~InList(record, accessions_from_output)

RECURSIVE MissingMessages(_, _)
\* the loop over accessions_from_input
MissingMessages(accessions_from_input, accessions_from_output) ==
    IF Len(accessions_from_input) = 0 THEN <<>>
    ELSE (IF NotInOutput(accessions_from_input[1], accessions_from_output)
          THEN <<MissingMessage(accessions_from_input[1])>> ELSE <<>>)
         \o MissingMessages(Tail(accessions_from_input), accessions_from_output)

\* main of validate_extract, from the two files' lines to the lines it prints
ValidatorReport(input_lines, extract_lines) ==
    LET accessions_from_input == get_unique_accessions_from_input_PHS_list(input_lines)
        accessions_from_output == get_unique_accessions_from_output_extract(extract_lines)
    IN <<Message("Looking at input vs output", <<>>, 0, 0),
         Message("Input", accessions_from_input, 0, 0),
         Message("Output", accessions_from_output, 0, 0)>>
       \o (IF Len(accessions_from_input) # Len(accessions_from_output)
           THEN <<Message("Mismatch", <<>>, Len(accessions_from_input),
                          Len(accessions_from_output))>>
           ELSE <<>>)
       \o MissingMessages(accessions_from_input, accessions_from_output)

\* the accessions of the validator's runs, without and with version
ValidatorStudies == {PHS \o n : n \in StudyNumbers}
ValidatorAccessions ==
    ValidatorStudies \cup {Accession(<<"1">>, 1, <<"1">>), Accession(<<"2", "0">>, 2, <<"1">>)}

\* the lines of an accession list file
AccessionListFiles ==
    {[i \in 1..Len(list) |-> list[i] \o <<"\n">>] : list \in SeqsUpTo(ValidatorAccessions, MaxInput)}

RECURSIVE ExtractRows(_)
\* the rows the driver writes for the studies of a run, in order
ExtractRows(accessions) ==
    IF Len(accessions) = 0 THEN <<>>
    ELSE SampleRows(accessions[1], <<GoodSample, NoConsentSample>>, FALSE).rows
         \o ExtractRows(Tail(accessions))

\* extracts of runs that wrote none, one or both of two studies
Extracts ==
    LET a == Accession(<<"1">>, 1, <<"1">>)
        b == Accession(<<"2", "0">>, 2, <<"1">>)
    IN {<<HeaderRow>> \o ExtractRows(written) :
            written \in {<<>>, <<a>>, <<b>>, <<a, b>>, <<b, a>>}}

InitValidate ==
    /\ IdleDriver
    /\ fn_input \in [accession_list : AccessionListFiles, extract : Extracts]
    /\ fn_output = NotCalled

Validate ==
    /\ pc = "idle"
    /\ Return("validate_extract.main",
              ValidatorReport(fn_input.accession_list,
                              [i \in 1..Len(fn_input.extract) |->
                                  TsvLine(fn_input.extract[i])]))

NextValidate == Validate

SpecValidate == InitValidate /\ [][NextValidate]_vars

\* the study of an accession: what stands before its first dot
BaseStudy(accession) == Split(accession, ".")[1]

\* the studies that have rows in an extract
StudiesWithRows(extract) ==
    {BaseStudy(extract[i][StudyAccessionColumn]) : i \in 2..Len(extract)}

\* C9: the report has a "missing" line for every requested accession that is
\* not among the accessions found in the extract, has none for a requested
\* accession whose study has rows in the extract, and has the mismatch line
\* exactly when the numbers of unique requested and found accessions differ.
C9_ValidatorReport ==
    fn_output.called = "validate_extract.main" =>
        LET requested_accessions == {Strip(line) : line \in Range(fn_input.accession_list)}
            found == StudiesWithRows(fn_input.extract)
            report == Range(fn_output.result)
        IN /\ \A r \in requested_accessions :
                /\ r \notin found => MissingMessage(r) \in report
                /\ BaseStudy(r) \in found => MissingMessage(r) \notin report
           /\ (\E m \in report : m.kind = "Mismatch")
                  <=> Cardinality(requested_accessions) # Cardinality(found)

====
